---------------------------- MODULE Spec2Model ----------------------------
(***************************************************************************)
(* A model of tex2imgs.py: the text recognizers (preamble statements,      *)
(* block / display / inline equations), the two content filters, the       *)
(* post-processing helpers and the per-file / per-directory orchestration  *)
(* that hands every surviving equation to the external toolchain.          *)
(*                                                                         *)
(* Text is modelled at character level: a string is a sequence of          *)
(* one-character strings, and every regular expression of the source is    *)
(* translated into the leftmost, backtracking match Python's re computes.  *)
(***************************************************************************)
EXTENDS Naturals, Sequences, FiniteSets, TLC

VARIABLES
    pc,                   \* position of the modelled call
    latex_string,         \* argument of extract_latex_equations / extract_preamble
    equation_types,       \* argument of extract_latex_equations
    candidates,           \* the env_matches / dd_matches / id_matches of the last call
    equations,            \* value returned by extract_latex_equations
    preamble_statements,  \* value returned by extract_preamble
    equation,             \* argument of post_process_equation
    processed,            \* post_process_equation(equation)
    reprocessed,          \* post_process_equation(processed)
    files,                \* the files os.walk yields, in traversal order
    failures,             \* external commands that have failed so far
    agg_preamble,         \* process_directory's accumulator
    passed_preamble,      \* the accumulator value passed to the running process_tex_file
    preamble,             \* process_tex_file's local preamble
    extracted_equations,  \* process_tex_file's local list of equations
    i,                    \* loop index of process_tex_file (0-based)
    fs,                   \* file system: path -> content, for scratch and output files
    renders,              \* the hand-offs to the toolchain made for the current file
    returned              \* the values the finished process_tex_file calls returned

vars == <<pc, latex_string, equation_types, candidates, equations,
          preamble_statements, equation, processed, reprocessed, files, failures,
          agg_preamble, passed_preamble, preamble, extracted_equations, i, fs,
          renders, returned>>

(***************************************************************************)
(* Characters and literals                                                 *)
(***************************************************************************)
Whitespace == {" ", "\t", "\n", "\r", "\f"}

Letters == {"a", "b", "c", "d", "e", "f", "g", "h", "i", "j", "k", "l", "m",
            "n", "o", "p", "q", "r", "s", "t", "u", "v", "w", "x", "y", "z",
            "A", "B", "C", "D", "E", "F", "G", "H", "I", "J", "K", "L", "M",
            "N", "O", "P", "Q", "R", "S", "T", "U", "V", "W", "X", "Y", "Z"}

Digits == {"0", "1", "2", "3", "4", "5", "6", "7", "8", "9"}

LitBegin == <<"\\", "b", "e", "g", "i", "n", "{">>
LitEnd == <<"\\", "e", "n", "d", "{">>
LitMathbf == <<"\\", "m", "a", "t", "h", "b", "f", "{">>
LitLabel == <<"\\", "l", "a", "b", "e", "l", "{">>
LitUsepackage == <<"\\", "u", "s", "e", "p", "a", "c", "k", "a", "g", "e">>
LitRenewcommand == <<"\\", "r", "e", "n", "e", "w", "c", "o", "m", "m", "a", "n", "d">>
LitNewcommand == <<"\\", "n", "e", "w", "c", "o", "m", "m", "a", "n", "d">>

\* the alternation of env_pattern, in its order
EnvNames == << <<"e", "q", "u", "a", "t", "i", "o", "n">>,
               <<"a", "l", "i", "g", "n">>,
               <<"g", "a", "t", "h", "e", "r">>,
               <<"m", "u", "l", "t", "l", "i", "n", "e">>,
               <<"f", "l", "a", "l", "i", "g", "n">>,
               <<"a", "l", "i", "g", "n", "a", "t">>,
               <<"s", "p", "l", "i", "t">>,
               <<"c", "a", "s", "e", "s">> >>

\* the alternation of post_process_equation's two patterns, in its order
NumberedNames == SubSeq(EnvNames, 1, 6)

(***************************************************************************)
(* String helpers                                                          *)
(***************************************************************************)
Min(S) == CHOOSE x \in S : \A y \in S : x <= y

Range(l) == {l[k] : k \in 1..Len(l)}

\* the literal lit occurs in s at position p
StartsWithAt(s, p, lit) ==
    /\ p >= 1
    /\ p + Len(lit) - 1 <= Len(s)
    /\ \A k \in 1..Len(lit) : s[p + k - 1] = lit[k]

\* smallest index >= from holding character c, 0 when there is none
FirstChar(s, from, c) ==
    LET S == {k \in from..Len(s) : s[k] = c}
    IN  IF S = {} THEN 0 ELSE Min(S)

\* str.strip()
Strip(s) ==
    LET S == {k \in 1..Len(s) : s[k] \notin Whitespace}
    IN  IF S = {} THEN <<>>
        ELSE SubSeq(s, Min(S), CHOOSE x \in S : \A y \in S : y <= x)

\* str.split(sep) for a one-character separator
RECURSIVE SplitOn(_, _)
SplitOn(s, sep) ==
    LET k == FirstChar(s, 1, sep)
    IN  IF k = 0 THEN <<s>>
        ELSE <<SubSeq(s, 1, k - 1)>> \o SplitOn(SubSeq(s, k + 1, Len(s)), sep)

\* str.replace(a, b) for one-character a and b
Replace(s, a, b) == [k \in 1..Len(s) |-> IF s[k] = a THEN b ELSE s[k]]

\* sep.join(l)
RECURSIVE Join(_, _)
Join(l, sep) ==
    IF Len(l) = 0 THEN <<>>
    ELSE IF Len(l) = 1 THEN l[1]
    ELSE l[1] \o sep \o Join(Tail(l), sep)

\* list(set(...)): the set's elements in an order the caller cannot rely on
ListOfSet(S) ==
    {l \in [1..Cardinality(S) -> S] : \A a, b \in 1..Cardinality(S) : l[a] = l[b] => a = b}

NoMatch == [end |-> 0, inner |-> <<>>]

(***************************************************************************)
(* Content filters                                                         *)
(***************************************************************************)
\* re.sub(r'[\s&\]]', '', content)
CleanContent(content) ==
    SelectSeq(content, LAMBDA c : c \notin Whitespace \cup {"&", "]"})

\* re.fullmatch(r'[\d.]+', s)
FullMatchDigitsDots(s) ==
    /\ Len(s) >= 1
    /\ \A k \in 1..Len(s) : s[k] \in Digits \cup {"."}

\* re.fullmatch(r'\\mathbf\{[\d.]+\}', s)
FullMatchBoldNumber(s) ==
    /\ StartsWithAt(s, 1, LitMathbf)
    /\ Len(s) >= Len(LitMathbf) + 2
    /\ s[Len(s)] = "}"
    /\ FullMatchDigitsDots(SubSeq(s, Len(LitMathbf) + 1, Len(s) - 1))

\* the same test with the cleaning step left out
NumericWithoutCleaning(content) ==
    IF content = <<>> THEN FALSE
    ELSE IF \E k \in 1..Len(content) :
               content[k] \in Letters \cup {"+", "-", "*", "/", "=", "<", ">", "\\"}
         THEN FALSE
    ELSE FullMatchDigitsDots(content) \/ FullMatchBoldNumber(content)

_is_purely_numeric_content(content) ==
    LET cleaned_content == CleanContent(content)
    IN  IF cleaned_content = <<>> THEN FALSE
        ELSE IF \E k \in 1..Len(cleaned_content) :
                   cleaned_content[k] \in
                       Letters \cup {"+", "-", "*", "/", "=", "<", ">", "\\"}
             THEN FALSE
        ELSE IF FullMatchDigitsDots(cleaned_content)
                \/ FullMatchBoldNumber(cleaned_content)
             THEN TRUE
        ELSE FALSE

\* the same test with line.strip() left out
CommentedWithoutStrip(content) ==
    LET lines == SplitOn(content, "\n")
    IN  ~ \E n \in 1..Len(lines) : lines[n] # <<>> /\ lines[n][1] # "%"

_is_commented_out(content) ==
    LET lines == SplitOn(content, "\n")
    IN  ~ \E n \in 1..Len(lines) :
            LET stripped_line == Strip(lines[n])
            IN  stripped_line # <<>> /\ stripped_line[1] # "%"

(***************************************************************************)
(* Equation patterns                                                       *)
(***************************************************************************)
\* \\end\{\2\*?\} at position k: the index of its closing brace, else 0
EndMarkerAt(s, k, name) ==
    LET p == k + Len(LitEnd) + Len(name)
        q == IF p <= Len(s) /\ s[p] = "*" THEN p + 1 ELSE p
    IN  IF StartsWithAt(s, k, LitEnd \o name) /\ q <= Len(s) /\ s[q] = "}"
        THEN q ELSE 0

\* env_pattern at position p with the alternative name chosen for group 2
EnvMatchName(s, p, name) ==
    LET a == p + Len(LitBegin) + Len(name)
        q == IF a <= Len(s) /\ s[a] = "*" THEN a + 1 ELSE a
    IN  IF StartsWithAt(s, p, LitBegin \o name) /\ q <= Len(s) /\ s[q] = "}"
        THEN LET ends == {k \in (q + 1)..Len(s) : EndMarkerAt(s, k, name) # 0}
             IN  IF ends = {} THEN NoMatch
                 ELSE [end |-> EndMarkerAt(s, Min(ends), name),
                       inner |-> SubSeq(s, q + 1, Min(ends) - 1)]
        ELSE NoMatch

\* env_pattern at position p: the first alternative that lets the whole pattern match
EnvMatchAt(s, p) ==
    IF StartsWithAt(s, p, LitBegin)
    THEN LET ok == {n \in 1..Len(EnvNames) : EnvMatchName(s, p, EnvNames[n]).end # 0}
         IN  IF ok = {} THEN NoMatch ELSE EnvMatchName(s, p, EnvNames[Min(ok)])
    ELSE NoMatch

\* dd_pattern at position p
DdMatchAt(s, p) ==
    IF StartsWithAt(s, p, <<"$", "$">>)
    THEN LET ends == {k \in (p + 2)..Len(s) : StartsWithAt(s, k, <<"$", "$">>)}
         IN  IF ends = {} THEN NoMatch
             ELSE [end |-> Min(ends) + 1, inner |-> SubSeq(s, p + 2, Min(ends) - 1)]
    ELSE NoMatch

\* the pattern without its lookbehind and lookahead
IdMatchWithoutLookaround(s, p) ==
    IF p <= Len(s) /\ s[p] = "$"
    THEN LET k == FirstChar(s, p + 1, "$")
         IN  IF k > p + 1
             THEN [end |-> k, inner |-> SubSeq(s, p + 1, k - 1)]
             ELSE NoMatch
    ELSE NoMatch

\* id_pattern at position p: [^\$]+? cannot step over a dollar sign, so the only
\* closing delimiter it can reach is the first one after p
IdMatchAt(s, p) ==
    IF /\ p <= Len(s)
       /\ s[p] = "$"
       /\ (p = 1 \/ s[p - 1] # "$")
    THEN LET k == FirstChar(s, p + 1, "$")
         IN  IF k > p + 1 /\ (k = Len(s) \/ s[k + 1] # "$")
             THEN [end |-> k, inner |-> SubSeq(s, p + 1, k - 1)]
             ELSE NoMatch
    ELSE NoMatch

\* pattern.findall: leftmost matches, scanning on from the end of each match
RECURSIVE EnvFindAll(_, _)
EnvFindAll(s, p) ==
    IF p > Len(s) THEN <<>>
    ELSE LET m == EnvMatchAt(s, p)
         IN  IF m.end = 0 THEN EnvFindAll(s, p + 1)
             ELSE <<[shape |-> "block", start |-> p, full_match |-> SubSeq(s, p, m.end),
                     inner_content |-> m.inner]>> \o EnvFindAll(s, m.end + 1)

RECURSIVE DdFindAll(_, _)
DdFindAll(s, p) ==
    IF p > Len(s) THEN <<>>
    ELSE LET m == DdMatchAt(s, p)
         IN  IF m.end = 0 THEN DdFindAll(s, p + 1)
             ELSE <<[shape |-> "display", start |-> p, full_match |-> SubSeq(s, p, m.end),
                     inner_content |-> m.inner]>> \o DdFindAll(s, m.end + 1)

RECURSIVE IdFindAll(_, _)
IdFindAll(s, p) ==
    IF p > Len(s) THEN <<>>
    ELSE LET m == IdMatchAt(s, p)
         IN  IF m.end = 0 THEN IdFindAll(s, p + 1)
             ELSE <<[shape |-> "inline", start |-> p, full_match |-> SubSeq(s, p, m.end),
                     inner_content |-> m.inner]>> \o IdFindAll(s, m.end + 1)

(***************************************************************************)
(* extract_latex_equations                                                 *)
(***************************************************************************)
NoneTypes == {"<None>"}

\* the three findall results of one call, for the categories selected
Matches(s, types) ==
    LET eqtypes == IF types = NoneTypes THEN {"all"} ELSE types
        extract_all == "all" \in eqtypes
        extract_block == extract_all \/ "block" \in eqtypes
        extract_display == extract_all \/ "display" \in eqtypes
        extract_inline == extract_all \/ "inline" \in eqtypes
    IN  (IF extract_block THEN EnvFindAll(s, 1) ELSE <<>>)
        \o (IF extract_display THEN DdFindAll(s, 1) ELSE <<>>)
        \o (IF extract_inline THEN IdFindAll(s, 1) ELSE <<>>)

\* the test that guards equations.append
Survives(inner_content) ==
    ~ _is_purely_numeric_content(inner_content) /\ ~ _is_commented_out(inner_content)

\* the set of lists the call may return
extract_latex_equations(s, types) ==
    LET ms == Matches(s, types)
        kept == SelectSeq(ms, LAMBDA m : Survives(m.inner_content))
    IN  ListOfSet({Strip(kept[k].full_match) : k \in 1..Len(kept)})

(***************************************************************************)
(* extract_preamble                                                        *)
(***************************************************************************)
\* \{.*?\} at position q: the index of the closing brace, else 0
BraceArg(s, q) ==
    IF q <= Len(s) /\ s[q] = "{" THEN FirstChar(s, q + 1, "}") ELSE 0

\* the same pattern with a greedy first argument
TwoBraceArgsGreedy(s, q) ==
    IF q <= Len(s) /\ s[q] = "{"
    THEN LET ks == {k \in (q + 1)..Len(s) : s[k] = "}" /\ BraceArg(s, k + 1) # 0}
         IN  IF ks = {} THEN 0
             ELSE BraceArg(s, (CHOOSE x \in ks : \A y \in ks : y <= x) + 1)
    ELSE 0

\* \{.*?\}\{.*?\} at position q: the first argument grows until a closing brace is
\* directly followed by a second braced argument
TwoBraceArgs(s, q) ==
    IF q <= Len(s) /\ s[q] = "{"
    THEN LET ks == {k \in (q + 1)..Len(s) : s[k] = "}" /\ BraceArg(s, k + 1) # 0}
         IN  IF ks = {} THEN 0 ELSE BraceArg(s, Min(ks) + 1)
    ELSE 0

\* (\[.*?\])? followed by one braced argument (two = FALSE) or two (two = TRUE),
\* at position q: the group is tried first, then skipped
OptBracketThen(s, q, two) ==
    LET Rest(x, k) == IF two THEN TwoBraceArgs(x, k) ELSE BraceArg(x, k)
        ks == IF q <= Len(s) /\ s[q] = "["
              THEN {k \in (q + 1)..Len(s) : s[k] = "]" /\ Rest(s, k + 1) # 0}
              ELSE {}
    IN  IF ks # {} THEN Rest(s, Min(ks) + 1) ELSE Rest(s, q)

\* preamble_pattern at position p: the index of the last character matched, else 0
PreambleMatchAt(s, p) ==
    IF StartsWithAt(s, p, LitUsepackage)
    THEN OptBracketThen(s, p + Len(LitUsepackage), FALSE)
    ELSE IF StartsWithAt(s, p, LitRenewcommand)
    THEN TwoBraceArgs(s, p + Len(LitRenewcommand))
    ELSE IF StartsWithAt(s, p, LitNewcommand)
    THEN OptBracketThen(s, p + Len(LitNewcommand), TRUE)
    ELSE 0

\* [match[0].strip() for match in preamble_pattern.findall(latex_string)]
RECURSIVE PreambleFindAll(_, _)
PreambleFindAll(s, p) ==
    IF p > Len(s) THEN <<>>
    ELSE LET e == PreambleMatchAt(s, p)
         IN  IF e = 0 THEN PreambleFindAll(s, p + 1)
             ELSE <<Strip(SubSeq(s, p, e))>> \o PreambleFindAll(s, e + 1)

\* the set of lists the call may return
extract_preamble(s) == ListOfSet(Range(PreambleFindAll(s, 1)))

(***************************************************************************)
(* post_process_equation and get_equation_label                            *)
(***************************************************************************)
\* lit + r'(equation|align|gather|multline|flalign|alignat)\}' at position p: the
\* number of the alternative that matches, else 0
NumberedMarkerAt(s, p, lit) ==
    IF StartsWithAt(s, p, lit)
    THEN LET ok == {n \in 1..Len(NumberedNames) :
                       StartsWithAt(s, p + Len(lit), NumberedNames[n] \o <<"}">>)}
         IN  IF ok = {} THEN 0 ELSE Min(ok)
    ELSE 0

\* re.sub(lit + r'(equation|align|gather|multline|flalign|alignat)\}',
\*        lit + r'\1*}', s), from position p on: the text up to the leftmost match is
\* copied, the match is replaced, and the scan goes on behind it
RECURSIVE SubMarker(_, _, _)
SubMarker(s, p, lit) ==
    LET hits == {k \in p..Len(s) : NumberedMarkerAt(s, k, lit) # 0}
    IN  IF hits = {} THEN SubSeq(s, p, Len(s))
        ELSE LET q == Min(hits)
                 name == NumberedNames[NumberedMarkerAt(s, q, lit)]
             IN  SubSeq(s, p, q - 1) \o lit \o name \o <<"*", "}">>
                     \o SubMarker(s, q + Len(lit) + Len(name) + 1, lit)

\* the same substitution with the closing brace left out of pattern and replacement
UnanchoredMarkerAt(s, p, lit) ==
    IF StartsWithAt(s, p, lit)
    THEN LET ok == {n \in 1..Len(NumberedNames) :
                       StartsWithAt(s, p + Len(lit), NumberedNames[n])}
         IN  IF ok = {} THEN 0 ELSE Min(ok)
    ELSE 0

RECURSIVE SubMarkerUnanchored(_, _, _)
SubMarkerUnanchored(s, p, lit) ==
    LET hits == {k \in p..Len(s) : UnanchoredMarkerAt(s, k, lit) # 0}
    IN  IF hits = {} THEN SubSeq(s, p, Len(s))
        ELSE LET q == Min(hits)
                 name == NumberedNames[UnanchoredMarkerAt(s, q, lit)]
             IN  SubSeq(s, p, q - 1) \o lit \o name \o <<"*">>
                     \o SubMarkerUnanchored(s, q + Len(lit) + Len(name), lit)

PostProcessUnanchored(eq) ==
    SubMarkerUnanchored(SubMarkerUnanchored(eq, 1, LitBegin), 1, LitEnd)

post_process_equation(eq) == SubMarker(SubMarker(eq, 1, LitBegin), 1, LitEnd)

\* Python's None: a value that is no string
None == <<"<None>">>

\* label_pattern.search(equation): '.' does not match a newline, and the lazy
\* group stops at the first closing brace
LabelMatches(eq) ==
    {p \in 1..Len(eq) :
        /\ StartsWithAt(eq, p, LitLabel)
        /\ LET k == FirstChar(eq, p + Len(LitLabel), "}")
           IN  k # 0 /\ \A j \in (p + Len(LitLabel))..(k - 1) : eq[j] # "\n"}

get_equation_label(eq) ==
    IF LabelMatches(eq) # {}
    THEN LET p == Min(LabelMatches(eq))
             k == FirstChar(eq, p + Len(LitLabel), "}")
         IN  Replace(SubSeq(eq, p + Len(LitLabel), k - 1), ":", "_")
    ELSE None

(***************************************************************************)
(* Bounds and inputs                                                       *)
(***************************************************************************)
\* all concatenations of at most n fragments of F
RECURSIVE Concats(_, _)
Concats(F, n) ==
    IF n = 0 THEN {<<>>}
    ELSE LET C == Concats(F, n - 1)
         IN  C \cup {c \o f : c \in C, f \in F}

TypeChoices == {NoneTypes, {"all"}, {"block", "display"}, {"inline"}}

\* an equation of the given shape around a content
Wrap(shape, content) ==
    IF shape = "block"
    THEN LitBegin \o EnvNames[1] \o <<"}">> \o content \o LitEnd \o EnvNames[1] \o <<"}">>
    ELSE IF shape = "display"
    THEN <<"$", "$">> \o content \o <<"$", "$">>
    ELSE <<"$">> \o content \o <<"$">>

MaxContentFrags == 3

ContentFrags ==
    {<<"3">>, <<".">>, <<"x">>, <<"=">>, <<" ">>, <<"\n">>, <<"%">>, <<"&", "]">>,
     LitMathbf, <<"}">>}

\* contents named by the documentation of the filters
ContentExamples ==
    {<<"3", ".", "1", "4">>,
     <<"x", " ", "=", " ", "3", ".", "1", "4">>,
     <<"1", ",", "0", "0", "0">>,
     LitMathbf \o <<"3", ".", "1", "4", "}">>,
     <<" ", "&", " ">> \o LitMathbf \o <<"3", ".", "1", "4", "}">> \o <<" ">>,
     <<"%", " ", "a", "\n", " ", "%", "b">>,
     <<"%", " ", "a", "\n", "x", "\n", "%", "b">>}

FilterDocs ==
    {Wrap(shape, c) : shape \in {"block", "display", "inline"},
                      c \in Concats(ContentFrags, MaxContentFrags) \cup ContentExamples}

(***************************************************************************)
(* Calls of the pure functions                                             *)
(***************************************************************************)
\* no scratch file and no output file
EmptyDisk == [texs |-> <<>>, pdfs |-> <<>>, crops |-> <<>>, out |-> <<>>]

ExtractIdle ==
    /\ latex_string = <<>>
    /\ equation_types = NoneTypes
    /\ candidates = {}
    /\ equations = <<>>

PreambleIdle == preamble_statements = <<>>

PostIdle ==
    /\ equation = <<>>
    /\ processed = <<>>
    /\ reprocessed = <<>>

DirectoryIdle ==
    /\ files = <<>>
    /\ failures = 0
    /\ agg_preamble = <<>>
    /\ passed_preamble = <<>>
    /\ preamble = <<>>
    /\ extracted_equations = <<>>
    /\ i = 0
    /\ fs = EmptyDisk
    /\ renders = <<>>
    /\ returned = <<>>

\* a call extract_latex_equations(latex_string, equation_types) about to run
InitFilter ==
    /\ pc = "extract"
    /\ latex_string \in FilterDocs
    /\ equation_types \in TypeChoices
    /\ candidates = {}
    /\ equations = <<>>
    /\ PreambleIdle /\ PostIdle /\ DirectoryIdle

ExtractEquations ==
    /\ pc = "extract"
    /\ candidates' = Range(Matches(latex_string, equation_types))
    /\ equations' \in extract_latex_equations(latex_string, equation_types)
    /\ pc' = "done"
    /\ UNCHANGED <<latex_string, equation_types, preamble_statements, equation,
                   processed, reprocessed, files, failures, agg_preamble,
                   passed_preamble, preamble, extracted_equations, i, fs, renders,
                   returned>>

SpecFilter == InitFilter /\ [][ExtractEquations]_vars

(***************************************************************************)
(* Claims about the content filters (SpecFilter)                           *)
(***************************************************************************)
Noise == Whitespace \cup {"&", "]"}

Symbols == Letters \cup {"+", "-", "*", "/", "=", "<", ">", "\\"}

Returned(c) == c.full_match \in Range(equations)

\* C1: a content whose characters other than whitespace, '&' and ']' are missing, or
\* include a letter, one of + - * / = < > or a backslash, is not purely numeric; a
\* content made of digits and decimal points (at least one) besides whitespace, '&'
\* and ']' is purely numeric and its equation is not returned; "3.14" is discarded,
\* "x = 3.14" and "1,000" are returned.
NumericFilterRule ==
    pc = "done" =>
        \A c \in candidates :
            LET inner == c.inner_content
                significant == {k \in 1..Len(inner) : inner[k] \notin Noise}
            IN  /\ (significant = {} \/ \E k \in significant : inner[k] \in Symbols)
                       => ~ _is_purely_numeric_content(inner)
                /\ (significant # {} /\ \A k \in significant : inner[k] \in Digits \cup {"."})
                       => _is_purely_numeric_content(inner) /\ ~ Returned(c)
                /\ (\E k \in significant : inner[k] \notin Digits \cup {"."})
                       => ~ _is_purely_numeric_content(inner)
                /\ inner = <<"3", ".", "1", "4">> => ~ Returned(c)
                /\ inner = <<"x", " ", "=", " ", "3", ".", "1", "4">> => Returned(c)
                /\ inner = <<"1", ",", "0", "0", "0">> => Returned(c)

\* a numeric content met by the filter and dropped from the result
NumericDiscarded ==
    /\ pc = "done"
    /\ \E c \in candidates :
          /\ c.inner_content = <<"3", ".", "1", "4">>
          /\ _is_purely_numeric_content(c.inner_content)
          /\ ~ Returned(c)

\* the content is \mathbf{<digits and dots>} once whitespace and '&' are dropped
IsBoldNumber(inner) ==
    LET core == SelectSeq(inner, LAMBDA ch : ch \notin Whitespace \cup {"&"})
    IN  /\ Len(core) >= Len(LitMathbf) + 2
        /\ SubSeq(core, 1, Len(LitMathbf)) = LitMathbf
        /\ core[Len(core)] = "}"
        /\ \A k \in (Len(LitMathbf) + 1)..(Len(core) - 1) : core[k] \in Digits \cup {"."}

EveryLineBlankOrComment(inner) ==
    \A p \in 1..Len(inner) :
        inner[p] \notin Whitespace =>
            \E q \in 1..p :
                /\ inner[q] = "%"
                /\ \A j \in q..p : inner[j] # "\n"
                /\ \A j \in 1..(q - 1) :
                      (\A m \in j..(q - 1) : inner[m] # "\n") => inner[j] \in Whitespace

MaxInlineFrags == 6

InlineFrags == {<<"$">>, <<"a">>, <<" ">>, <<"3">>}

DocAandB == <<"$", "a", "$", " ", "a", "n", "d", " ", "$", "b", "$">>

InlineDocs == Concats(InlineFrags, MaxInlineFrags) \cup {DocAandB}

InitInline ==
    /\ pc = "extract"
    /\ latex_string \in InlineDocs
    /\ equation_types \in TypeChoices
    /\ candidates = {}
    /\ equations = <<>>
    /\ PreambleIdle /\ PostIdle /\ DirectoryIdle

SpecInline == InitInline /\ [][ExtractEquations]_vars

\* C4: with only 'inline' selected, every returned candidate is a matched span
\* $...$ with a non-empty inner content free of '$', whose opening '$' has no '$'
\* right before it and whose closing '$' has no '$' right after it in the document;
\* "$a$ and $b$" yields exactly "$a$" and "$b$".
InlineSpansIsolated ==
    (pc = "done" /\ equation_types = {"inline"}) =>
        /\ \A e \in Range(equations) :
              \E c \in candidates :
                  LET last == c.start + Len(e) - 1
                  IN  /\ c.shape = "inline"
                      /\ c.full_match = e
                      /\ SubSeq(latex_string, c.start, last) = e
                      /\ Len(e) >= 3
                      /\ e[1] = "$" /\ e[Len(e)] = "$"
                      /\ \A k \in 2..(Len(e) - 1) : e[k] # "$"
                      /\ c.start = 1 \/ latex_string[c.start - 1] # "$"
                      /\ last = Len(latex_string) \/ latex_string[last + 1] # "$"
        /\ \A c \in candidates :
              /\ c.start = 1 \/ latex_string[c.start - 1] # "$"
              /\ latex_string[c.start + 1] # "$"
        /\ latex_string = DocAandB
              => Range(equations) = {<<"$", "a", "$">>, <<"$", "b", "$">>}

\* the two inline equations of "$a$ and $b$" returned separately
InlineTwoCandidates ==
    /\ pc = "done"
    /\ equation_types = {"inline"}
    /\ latex_string = DocAandB
    /\ Len(equations) = 2

(***************************************************************************)
(* Unnumbering (SpecPost)                                                  *)
(***************************************************************************)
MaxPostFrags == 2

\* \begin{X}, \begin{X*}, \end{X}, \end{X*} for every environment name X
Markers ==
    {lit \o EnvNames[n] \o star \o <<"}">> :
        lit \in {LitBegin, LitEnd}, n \in 1..Len(EnvNames), star \in {<<>>, <<"*">>}}

PostFrags == Markers \cup {LitBegin, <<"*">>, <<"}">>, <<"x">>}

DocEmc2 ==
    LitBegin \o EnvNames[1] \o <<"}", "\n", "E", "=", "m", "c", "^", "2", "\n">>
        \o LitEnd \o EnvNames[1] \o <<"}">>

PostDocs == Concats(PostFrags, MaxPostFrags) \cup {DocEmc2}

InitPost ==
    /\ pc = "post"
    /\ equation \in PostDocs
    /\ processed = <<>>
    /\ reprocessed = <<>>
    /\ ExtractIdle /\ PreambleIdle /\ DirectoryIdle

\* eq = post_process_equation(eq)
PostProcess ==
    /\ pc = "post"
    /\ processed' = post_process_equation(equation)
    /\ pc' = "post-again"
    /\ UNCHANGED <<latex_string, equation_types, candidates, equations,
                   preamble_statements, equation, reprocessed, files, failures,
                   agg_preamble, passed_preamble, preamble, extracted_equations, i,
                   fs, renders, returned>>

\* the function applied to its own result
PostProcessAgain ==
    /\ pc = "post-again"
    /\ reprocessed' = post_process_equation(processed)
    /\ pc' = "done"
    /\ UNCHANGED <<latex_string, equation_types, candidates, equations,
                   preamble_statements, equation, processed, files, failures,
                   agg_preamble, passed_preamble, preamble, extracted_equations, i,
                   fs, renders, returned>>

NextPost == PostProcess \/ PostProcessAgain

SpecPost == InitPost /\ [][NextPost]_vars

\* positions of s where an unstarred \begin{X} or \end{X} of a numbered X starts
UnstarredAt(s) ==
    {p \in 1..Len(s) :
        /\ s[p] = "\\"
        /\ \E lit \in {LitBegin, LitEnd} :
              /\ StartsWithAt(s, p, lit)
              /\ \E n \in 1..Len(NumberedNames) :
                    StartsWithAt(s, p + Len(lit), NumberedNames[n] \o <<"}">>)}

\* length of the \begin{X or \end{X that starts at position p of s
MarkerLenAt(s, p) ==
    LET lit == IF StartsWithAt(s, p, LitBegin) THEN LitBegin ELSE LitEnd
        n == CHOOSE n \in 1..Len(NumberedNames) :
                 StartsWithAt(s, p, lit \o NumberedNames[n] \o <<"}">>)
    IN  Len(lit) + Len(NumberedNames[n])

\* out is s with one '*' put before the closing brace of each marker starting at a
\* position in U, and nothing else changed
StarsAddedAt(s, U, out) ==
    \E starAfter \in {{p + MarkerLenAt(s, p) - 1 : p \in U}} :
        /\ Len(out) = Len(s) + Cardinality(U)
        /\ \A k \in 1..Len(s) :
              LET shift == Cardinality({q \in starAfter : q < k})
              IN  /\ out[k + shift] = s[k]
                  /\ k \in starAfter => out[k + shift + 1] = "*"

\* C6: post_process_equation stars every \begin{X} and \end{X} of a numbered X and
\* changes nothing else (starred markers, split and cases stay as they are), and it is
\* idempotent.
UnnumberIdempotent ==
    /\ pc = "post-again" =>
          /\ UnstarredAt(processed) = {}
          /\ \E U \in {UnstarredAt(equation)} : StarsAddedAt(equation, U, processed)
          /\ UnstarredAt(equation) = {} => processed = equation
          /\ equation = DocEmc2 =>
                processed = LitBegin \o EnvNames[1]
                                \o <<"*", "}", "\n", "E", "=", "m", "c", "^", "2", "\n">>
                                \o LitEnd \o EnvNames[1] \o <<"*", "}">>
    /\ pc = "done" => reprocessed = processed

\* an equation with numbered markers, unnumbered and processed a second time
UnnumberedTwice ==
    /\ pc = "done"
    /\ equation = DocEmc2
    /\ processed # equation
    /\ reprocessed = processed

(***************************************************************************)
(* Preamble extraction (SpecPreamble)                                      *)
(***************************************************************************)
MaxPieces == 3

SimpleStatements ==
    {LitUsepackage \o <<"{", "a", "}">>,
     LitUsepackage \o <<"{", "b", "}">>,
     LitNewcommand \o <<"{", "\\", "x", "}", "{", "y", "}">>,
     LitRenewcommand \o <<"{", "\\", "x", "}", "{", "z", "\n", "}">>,
     LitRenewcommand \o <<"{">> \o LitUsepackage \o <<"}", "{", "}">>}

\* text that is no statement
Fillers == {<<"\n">>, <<"x", " ">>, <<"{", "a", "}">>, LitUsepackage \o <<" ">>}

\* statements with a bracketed argument, or with an argument missing
OtherStatements ==
    {LitNewcommand \o <<"{", "\\", "x", "}", "[", "1", "]", "{", "y", "}">>,
     LitUsepackage \o <<"[", "o", "]", "{", "a", "}">>,
     LitNewcommand \o <<"{", "a", "}", " ">>}

PreambleDocs ==
    Concats(SimpleStatements \cup Fillers \cup OtherStatements, MaxPieces)

InitPreamble ==
    /\ pc = "preamble"
    /\ latex_string \in PreambleDocs
    /\ equation_types = NoneTypes
    /\ candidates = {}
    /\ equations = <<>>
    /\ preamble_statements = <<>>
    /\ PostIdle /\ DirectoryIdle

ExtractPreamble ==
    /\ pc = "preamble"
    /\ preamble_statements' \in extract_preamble(latex_string)
    /\ pc' = "done"
    /\ UNCHANGED <<latex_string, equation_types, candidates, equations, equation,
                   processed, reprocessed, files, failures, agg_preamble,
                   passed_preamble, preamble, extracted_equations, i, fs, renders,
                   returned>>

SpecPreamble == InitPreamble /\ [][ExtractPreamble]_vars

\* a braced argument without braces or brackets inside starts at q: the index of its
\* closing brace, else 0
SimpleArg(s, q) ==
    IF q <= Len(s) /\ s[q] = "{"
    THEN LET stops == {k \in (q + 1)..Len(s) : s[k] \in {"{", "}", "[", "]"}}
         IN  IF stops # {} /\ s[Min(stops)] = "}" THEN Min(stops) ELSE 0
    ELSE 0

\* a syntactically simple statement starts at p: the index of its last character,
\* else 0
SimpleStatementEnd(s, p) ==
    IF StartsWithAt(s, p, LitUsepackage)
    THEN SimpleArg(s, p + Len(LitUsepackage))
    ELSE IF StartsWithAt(s, p, LitRenewcommand) \/ StartsWithAt(s, p, LitNewcommand)
    THEN LET q == p + (IF StartsWithAt(s, p, LitNewcommand)
                       THEN Len(LitNewcommand) ELSE Len(LitRenewcommand))
             e == SimpleArg(s, q)
         IN  IF e = 0 THEN 0 ELSE SimpleArg(s, e + 1)
    ELSE 0

SimpleStatementsOf(s) ==
    {SubSeq(s, p, SimpleStatementEnd(s, p)) :
        p \in {k \in 1..Len(s) : SimpleStatementEnd(s, k) # 0}}

\* every statement of the document is a simple one: a command name that does not
\* start a simple statement is not followed by an argument
OnlySimpleStatements(s) ==
    \A p \in 1..Len(s), lit \in {LitUsepackage, LitNewcommand, LitRenewcommand} :
        (StartsWithAt(s, p, lit) /\ SimpleStatementEnd(s, p) = 0)
            => ~ (p + Len(lit) <= Len(s) /\ s[p + Len(lit)] \in {"{", "["})

\* C7: from a document whose statements are N distinct syntactically simple
\* \usepackage{..}, \newcommand{..}{..} and \renewcommand{..}{..} statements,
\* extract_preamble returns exactly those N statements, each once and verbatim.
SimplePreambleExact ==
    (pc = "done" /\ OnlySimpleStatements(latex_string)) =>
        /\ Range(preamble_statements) = SimpleStatementsOf(latex_string)
        /\ Len(preamble_statements) = Cardinality(SimpleStatementsOf(latex_string))
        /\ \A n \in 1..Len(preamble_statements) :
              \E p \in 1..Len(latex_string) :
                  StartsWithAt(latex_string, p, preamble_statements[n])

\* three distinct simple statements extracted as three strings
ThreeStatementsExtracted ==
    /\ pc = "done"
    /\ OnlySimpleStatements(latex_string)
    /\ Cardinality(SimpleStatementsOf(latex_string)) = 3
    /\ Len(preamble_statements) = 3

(***************************************************************************)
(* process_directory and process_tex_file (Spec)                           *)
(***************************************************************************)
MaxFiles == 2

MaxFailures == 1

DecimalDigits == <<"0", "1", "2", "3", "4", "5", "6", "7", "8", "9">>

\* str(n)
RECURSIVE Str(_)
Str(n) ==
    IF n < 10 THEN <<DecimalDigits[n + 1]>>
    ELSE Str(n \div 10) \o <<DecimalDigits[(n % 10) + 1]>>

\* str.endswith
EndsWith(s, suffix) ==
    Len(s) >= Len(suffix) /\ SubSeq(s, Len(s) - Len(suffix) + 1, Len(s)) = suffix

LitEquationUnderscore == <<"e", "q", "u", "a", "t", "i", "o", "n", "_">>

LitPng == <<".", "p", "n", "g">>

LitTex == <<".", "t", "e", "x">>

\* Python's truth value of a str | None
Truthy(v) == v # None /\ v # <<>>

\* output_path of the equation at 0-based position n: the directory (one per visited
\* file, identified by the file's position in the traversal) and the file name
OutputPath(dir, label, n) ==
    IF Truthy(label)
    THEN <<dir, LitEquationUnderscore \o label \o LitPng>>
    ELSE <<dir, LitEquationUnderscore \o Str(n + 1) \o LitPng>>

\* the file's statements put behind the accumulator that was passed in
AccumulatedFilePreamble(passed, statements) ==
    passed \o <<"\n">> \o Join(statements, <<"\n">>)

\* preamble = '\n'.join(preamble_statements): the parameter is overwritten
FilePreamble(passed, statements) == Join(statements, <<"\n">>)

Put(f, k, v) == [x \in DOMAIN f \cup {k} |-> IF x = k THEN v ELSE f[x]]

Del(f, k) == [x \in DOMAIN f \ {k} |-> f[x]]

\* two equations that carry the same label
DocLabelled ==
    LitUsepackage \o <<"{", "a", "}", "\n", "$", "x">> \o LitLabel
        \o <<"e", ":", "f", "}", "$", " ", "$", "y">> \o LitLabel \o <<"e", ":", "f", "}", "$">>

\* two statements and one numbered equation without a label
DocBlock ==
    LitNewcommand \o <<"{", "\\", "x", "}", "{", "y", "}">> \o LitUsepackage
        \o <<"{", "b", "}", "\n">> \o LitBegin \o EnvNames[1] \o <<"}", "z">>
        \o LitEnd \o EnvNames[1] \o <<"}">>

\* two equations whose label is empty
DocEmptyLabels ==
    <<"$", "x">> \o LitLabel \o <<"}", "$", " ", "$", "y">> \o LitLabel \o <<"}", "$">>

\* the files a directory tree may hold
FileChoices ==
    {[filename |-> <<"a">> \o LitTex, doc |-> DocLabelled],
     [filename |-> <<"b">> \o LitTex, doc |-> DocBlock],
     [filename |-> <<"c">> \o LitTex, doc |-> DocEmptyLabels],
     [filename |-> <<"d", ".", "s", "t", "y">>, doc |-> DocBlock]}

\* process_directory after agg_preamble = ''
Init ==
    /\ pc = "walk"
    /\ equation_types \in {NoneTypes, {"inline"}}
    /\ latex_string = <<>>
    /\ candidates = {}
    /\ equations = <<>>
    /\ PreambleIdle /\ PostIdle /\ DirectoryIdle

\* os.walk yields a file whose name does not end in .tex
SkipFile ==
    /\ pc = "walk"
    /\ Len(files) < MaxFiles
    /\ \E f \in FileChoices :
          /\ ~ EndsWith(f.filename, LitTex)
          /\ files' = Append(files, f)
    /\ UNCHANGED <<pc, latex_string, equation_types, candidates, equations,
                   preamble_statements, equation, processed, reprocessed, failures,
                   agg_preamble, passed_preamble, preamble, extracted_equations, i,
                   fs, renders, returned>>

\* os.walk yields a .tex file: process_tex_file is called with the accumulator and
\* runs up to its loop
OpenTexFile ==
    /\ pc = "walk"
    /\ Len(files) < MaxFiles
    /\ \E f \in FileChoices :
          /\ EndsWith(f.filename, LitTex)
          /\ files' = Append(files, f)
          /\ latex_string' = f.doc
          /\ extracted_equations' \in extract_latex_equations(f.doc, equation_types)
          /\ preamble_statements' \in extract_preamble(f.doc)
    /\ passed_preamble' = agg_preamble
    /\ preamble' = FilePreamble(agg_preamble, preamble_statements')
    /\ i' = 0
    /\ renders' = <<>>
    /\ pc' = "loop"
    /\ UNCHANGED <<equation_types, candidates, equations, equation, processed,
                   reprocessed, failures, agg_preamble, fs, returned>>

\* one iteration of the loop: the .tex file is written, then pdflatex, pdfcrop and
\* magick run with their exit statuses ignored; a command whose input file is missing
\* fails, and any command may fail on its own
RenderEquation ==
    /\ pc = "loop"
    /\ i < Len(extracted_equations)
    /\ LET eq == post_process_equation(extracted_equations[i + 1])
           label == get_equation_label(eq)
           output_path == OutputPath(Len(files), label, i)
           n == i + 1
           tex == [equation |-> eq, preamble |-> preamble]
       IN  \E typeset \in {"ok", "failed", "failed and removed"},
              cropped \in BOOLEAN, rastered \in BOOLEAN :
               LET pdfs == IF typeset = "ok" THEN Put(fs.pdfs, n, tex)
                           ELSE IF typeset = "failed" THEN fs.pdfs
                           ELSE Del(fs.pdfs, n)
                   crops == IF cropped THEN Put(fs.crops, n, pdfs[n]) ELSE fs.crops
                   out == IF rastered THEN Put(fs.out, output_path, crops[n]) ELSE fs.out
                   failed == (IF typeset = "ok" THEN 0 ELSE 1)
                             + (IF ~ cropped /\ n \in DOMAIN pdfs THEN 1 ELSE 0)
                             + (IF ~ rastered /\ n \in DOMAIN crops THEN 1 ELSE 0)
               IN  /\ cropped => n \in DOMAIN pdfs
                   /\ rastered => n \in DOMAIN crops
                   /\ failures + failed <= MaxFailures
                   /\ failures' = failures + failed
                   /\ fs' = [texs |-> Put(fs.texs, n, tex), pdfs |-> pdfs,
                             crops |-> crops, out |-> out]
                   /\ renders' = Append(renders,
                                        [equation |-> eq, preamble |-> preamble,
                                         label |-> label, output_path |-> output_path,
                                         typeset |-> typeset = "ok",
                                         cropped |-> cropped, rastered |-> rastered])
    /\ i' = i + 1
    /\ UNCHANGED <<pc, latex_string, equation_types, candidates, equations,
                   preamble_statements, equation, processed, reprocessed, files,
                   agg_preamble, passed_preamble, preamble, extracted_equations,
                   returned>>

\* process_tex_file returns its preamble and process_directory appends it
CloseTexFile ==
    /\ pc = "loop"
    /\ i = Len(extracted_equations)
    /\ returned' = Append(returned, preamble)
    /\ agg_preamble' = agg_preamble \o <<"\n">> \o preamble
    /\ pc' = "walk"
    /\ UNCHANGED <<latex_string, equation_types, candidates, equations,
                   preamble_statements, equation, processed, reprocessed, files,
                   failures, passed_preamble, preamble, extracted_equations, i, fs,
                   renders>>

Next == SkipFile \/ OpenTexFile \/ RenderEquation \/ CloseTexFile

Spec == Init /\ [][Next]_vars

(***************************************************************************)
(* Claims about the orchestration (Spec)                                   *)
(***************************************************************************)
\* the \label{...} constructs of eq: where each starts and where its brace closes
LabelConstructs(eq) ==
    {pk \in (1..Len(eq)) \X (1..Len(eq)) :
        /\ StartsWithAt(eq, pk[1], LitLabel)
        /\ pk[2] >= pk[1] + Len(LitLabel)
        /\ eq[pk[2]] = "}"
        /\ \A j \in (pk[1] + Len(LitLabel))..(pk[2] - 1) : eq[j] \notin {"}", "\n"}}

\* the identifier of the first label construct, with ':' turned into '_'
FirstLabelIdentifier(eq) ==
    LET pk == CHOOSE x \in LabelConstructs(eq) : \A y \in LabelConstructs(eq) : x[1] <= y[1]
    IN  [n \in 1..(pk[2] - pk[1] - Len(LitLabel)) |->
            LET ch == eq[pk[1] + Len(LitLabel) + n - 1]
            IN  IF ch = ":" THEN "_" ELSE ch]

\* C5: get_equation_label returns the identifier of the first label construct with
\* ':' replaced by '_', and None only when there is no label construct; the output
\* file is equation_<label>.png for every equation with a label construct, the empty
\* identifier included, and equation_<position>.png only for equations without one.
LabelDecidesName ==
    \A k \in 1..Len(renders) :
        LET r == renders[k]
        IN  IF LabelConstructs(r.equation) # {}
            THEN /\ r.label = FirstLabelIdentifier(r.equation)
                 /\ r.output_path[2]
                        = LitEquationUnderscore \o FirstLabelIdentifier(r.equation) \o LitPng
            ELSE /\ r.label = None
                 /\ r.output_path[2] = LitEquationUnderscore \o Str(k) \o LitPng

\* every external command of the hand-off succeeded
RenderedWithoutError(r) == r.typeset /\ r.cropped /\ r.rastered

\* C8: when two equations of a file carry the same label and both are rendered
\* without error, both go to the one path equation_<label>.png, which after the file
\* holds the image of the later one, and no other file of the directory holds the
\* image of the earlier one.
SameLabelLastWins ==
    (pc = "walk" /\ Len(returned) >= 1) =>
        \A a, b \in 1..Len(renders) :
            (/\ a < b
             /\ renders[a].label # None
             /\ renders[a].label = renders[b].label
             /\ RenderedWithoutError(renders[a])
             /\ RenderedWithoutError(renders[b])
             /\ \A c \in (b + 1)..Len(renders) : renders[c].label # renders[b].label)
            => LET path == <<renders[b].output_path[1],
                             LitEquationUnderscore \o renders[b].label \o LitPng>>
               IN  /\ renders[a].output_path = path
                   /\ renders[b].output_path = path
                   /\ path \in DOMAIN fs.out
                   /\ fs.out[path] = [equation |-> renders[b].equation,
                                      preamble |-> renders[b].preamble]
                   /\ \A q \in DOMAIN fs.out :
                         (q[1] = path[1] /\ q # path)
                             => fs.out[q].equation # renders[a].equation

\* the preamble texts a file's statements can be joined to
OwnPreambles(doc) == {Join(l, <<"\n">>) : l \in extract_preamble(doc)}

\* the .tex files visited so far
TexFiles == SelectSeq(files, LAMBDA f : EndsWith(f.filename, LitTex))

\* '\n' + r for every r of l, concatenated
RECURSIVE Accumulate(_)
Accumulate(l) ==
    IF l = <<>> THEN <<>> ELSE Accumulate(SubSeq(l, 1, Len(l) - 1)) \o <<"\n">> \o l[Len(l)]

\* C9: the accumulator starts empty and grows, file after file, by a newline and
\* the file's own preamble; the preamble handed to the toolchain for every equation
\* and the value process_tex_file returns are the file's own statements joined by
\* newlines, whatever accumulator was passed in.
AccumulatorNeverFedBack ==
    /\ agg_preamble = Accumulate(returned)
    /\ \A k \in 1..Len(returned) : returned[k] \in OwnPreambles(TexFiles[k].doc)
    /\ pc = "loop" =>
          /\ passed_preamble = agg_preamble
          /\ preamble \in OwnPreambles(TexFiles[Len(TexFiles)].doc)
          /\ \A k \in 1..i : fs.texs[k].preamble = preamble
    /\ \A k \in 1..Len(renders) : renders[k].preamble = preamble
    /\ (pc = "walk" /\ Len(returned) >= 1) => returned[Len(returned)] = preamble

\* a second file rendered with its own preamble while the accumulator holds the
\* first file's
SecondFileOwnPreamble ==
    /\ pc = "loop"
    /\ Len(returned) = 1
    /\ returned[1] # <<>>
    /\ passed_preamble = <<"\n">> \o returned[1]
    /\ Len(renders) >= 1
    /\ preamble # <<>>
    /\ preamble # returned[1]

\* C10: the image a hand-off writes to its output path is made from the equation
\* and the preamble of that hand-off, also when an external command has failed.
ImageFromOwnEquation ==
    Len(renders) >= 1 =>
        LET r == renders[Len(renders)]
        IN  r.rastered => fs.out[r.output_path]
                              = [equation |-> r.equation, preamble |-> r.preamble]

=============================================================================
